---- MODULE Spec2Model ----
(***************************************************************************)
(* Model of the farpy front end: Lexer::tokenize (src/src/lexer/lexer.cpp) *)
(* followed by Parser::parse (src/src/parser/parser.cpp).                  *)
(*                                                                         *)
(* A std::string is a sequence of one-character strings, so a lexeme such  *)
(* as ** is <<"*", "*">>.  Offsets, columns and the parser cursor are      *)
(* zero-based as in the code; TLA+ sequences are one-based, so the code's  *)
(* source[i] is source[i + 1] here.                                        *)
(***************************************************************************)
EXTENDS Integers, Sequences, FiniteSets, TLC

VARIABLES
    source,          \* Lexer::source
    tokens,          \* Lexer::tokens, then Parser::tokens
    current_offset,  \* Lexer::current_offset
    current_line,    \* Lexer::current_line
    current_column,  \* Lexer::current_column
    lexError,        \* what the lexer reported before exit()
    pos,             \* Parser::pos
    statements,      \* the vector Parser::parse returns
    parseError,      \* what the parser reported (stderr) before break / exit
    oobRead,         \* TRUE once tokens[i] was read with i outside the vector
    ast_json,        \* the array main() fills with node->toJson() and prints
    pc               \* where the program is

vars == <<source, tokens, current_offset, current_line, current_column,
          lexError, pos, statements, parseError, oobRead, ast_json, pc>>

(***************************************************************************)
(* Bounds                                                                  *)
(***************************************************************************)
MaxLen == 4        \* longest source text enumerated exhaustively
MaxTokens == 3     \* longest token vector enumerated exhaustively

(***************************************************************************)
(* Characters: <cctype> in the "C" locale, restricted to ASCII             *)
(***************************************************************************)
NUL == "NUL"   \* the '\0' that peek() returns at the end of the buffer

Digits == {"0", "1", "2", "3", "4", "5", "6", "7", "8", "9"}

Letters ==
    {"a", "b", "c", "d", "e", "f", "g", "h", "i", "j", "k", "l", "m",
     "n", "o", "p", "q", "r", "s", "t", "u", "v", "w", "x", "y", "z",
     "A", "B", "C", "D", "E", "F", "G", "H", "I", "J", "K", "L", "M",
     "N", "O", "P", "Q", "R", "S", "T", "U", "V", "W", "X", "Y", "Z"}

\* a whitespace test that knows the space and the newline only.
IsSpaceNoTab(c) == c \in {" ", "\n"}

IsSpace(c) == c \in {" ", "\t", "\n", "\f", "\r"}

\* a digit test that takes '0' for no digit.
IsDigitNonZero(c) == c \in Digits \ {"0"}

IsDigit(c) == c \in Digits

IsAlpha(c) == c \in Letters

IsAlnum(c) == IsAlpha(c) \/ IsDigit(c)

(***************************************************************************)
(* Lexer                                                                   *)
(***************************************************************************)
\* The scanning position: the three cursor fields advance() changes.
Cursor(off, line, col) == [offset |-> off, line |-> line, column |-> col]

Peek(L) == IF L.offset < Len(source) THEN source[L.offset + 1] ELSE NUL

\* advance that resets the column at a newline but does not count the line.
AdvanceKeepsLine(L) ==
    IF source[L.offset + 1] = "\n"
    THEN Cursor(L.offset + 1, L.line, 0)
    ELSE Cursor(L.offset + 1, L.line, L.column + 1)

Advance(L) ==
    IF source[L.offset + 1] = "\n"
    THEN Cursor(L.offset + 1, L.line + 1, 0)
    ELSE Cursor(L.offset + 1, L.line, L.column + 1)

\* create_loc that forgets to step back over the lexeme.
CreateLocNoStepBack(lexeme, L) ==
    [line |-> L.line,
     start_column |-> L.column,
     end_column |-> L.column + Len(lexeme)]

CreateLoc(lexeme, L) ==
    [line |-> L.line,
     start_column |-> L.column - Len(lexeme),
     end_column |-> L.column]

CreateToken(type, lexeme, L) ==
    [type |-> type, lexeme |-> lexeme, loc |-> CreateLoc(lexeme, L)]

\* The switch of Lexer::tokenize for one-character tokens (no lookahead).
SingleCharTokens ==
    [c \in {"+", "-", "*", "/", "%", "^", "~", "?", ",", ";", ":", ".",
            "(", ")", "{", "}", "[", "]"} |->
        CASE c = "+" -> "PLUS"
          [] c = "-" -> "MINUS"
          [] c = "*" -> "STAR"
          [] c = "/" -> "SLASH"
          [] c = "%" -> "PERCENT"
          [] c = "^" -> "CARET"
          [] c = "~" -> "TILDE"
          [] c = "?" -> "QUESTION"
          [] c = "," -> "COMMA"
          [] c = ";" -> "SEMICOLON"
          [] c = ":" -> "COLON"
          [] c = "." -> "DOT"
          [] c = "(" -> "LEFT_PAREN"
          [] c = ")" -> "RIGHT_PAREN"
          [] c = "{" -> "LEFT_BRACE"
          [] c = "}" -> "RIGHT_BRACE"
          [] c = "[" -> "LEFT_BRACKET"
          [] c = "]" -> "RIGHT_BRACKET"]

\* The lookahead cases with the '|' case testing for '=' like the four
\* cases above it.
LookaheadTokensPipeEqual ==
    [c \in {"=", "!", "<", ">", "&", "|"} |->
        CASE c = "=" -> [second |-> "=", both |-> "EQUAL_EQUAL", single |-> "EQUAL"]
          [] c = "!" -> [second |-> "=", both |-> "BANG_EQUAL", single |-> "BANG"]
          [] c = "<" -> [second |-> "=", both |-> "LESS_EQUAL", single |-> "LESS"]
          [] c = ">" -> [second |-> "=", both |-> "GREATER_EQUAL", single |-> "GREATER"]
          [] c = "&" -> [second |-> "&", both |-> "AND", single |-> "AMPERSAND"]
          [] c = "|" -> [second |-> "=", both |-> "OR", single |-> "PIPE"]]

\* The switch cases with one character of lookahead: for a first character,
\* the second character that makes the compound token, the compound's kind
\* and the kind emitted when the second character does not match.
LookaheadTokens ==
    [c \in {"=", "!", "<", ">", "&", "|"} |->
        CASE c = "=" -> [second |-> "=", both |-> "EQUAL_EQUAL", single |-> "EQUAL"]
          [] c = "!" -> [second |-> "=", both |-> "BANG_EQUAL", single |-> "BANG"]
          [] c = "<" -> [second |-> "=", both |-> "LESS_EQUAL", single |-> "LESS"]
          [] c = ">" -> [second |-> "=", both |-> "GREATER_EQUAL", single |-> "GREATER"]
          [] c = "&" -> [second |-> "&", both |-> "AND", single |-> "AMPERSAND"]
          [] c = "|" -> [second |-> "|", both |-> "OR", single |-> "PIPE"]]

\* the keyword table without its foreach row.
KeywordTypeNoForeach(lexeme) ==
    CASE lexeme = <<"i", "f">> -> "IF"
      [] lexeme = <<"e", "l", "s", "e">> -> "ELSE"
      [] lexeme = <<"w", "h", "i", "l", "e">> -> "WHILE"
      [] lexeme = <<"f", "o", "r">> -> "FOR"
      [] lexeme = <<"d", "o">> -> "DO"
      [] lexeme = <<"b", "r", "e", "a", "k">> -> "BREAK"
      [] lexeme = <<"c", "o", "n", "t", "i", "n", "u", "e">> -> "CONTINUE"
      [] lexeme = <<"r", "e", "t", "u", "r", "n">> -> "RETURN"
      [] lexeme = <<"t", "r", "u", "e">> -> "TRUE"
      [] lexeme = <<"f", "a", "l", "s", "e">> -> "FALSE"
      [] OTHER -> "IDENTIFIER"

\* The keyword table of lexing_identifier: exact match, else IDENTIFIER.
KeywordType(lexeme) ==
    CASE lexeme = <<"i", "f">> -> "IF"
      [] lexeme = <<"e", "l", "s", "e">> -> "ELSE"
      [] lexeme = <<"w", "h", "i", "l", "e">> -> "WHILE"
      [] lexeme = <<"f", "o", "r">> -> "FOR"
      [] lexeme = <<"f", "o", "r", "e", "a", "c", "h">> -> "FOREACH"
      [] lexeme = <<"d", "o">> -> "DO"
      [] lexeme = <<"b", "r", "e", "a", "k">> -> "BREAK"
      [] lexeme = <<"c", "o", "n", "t", "i", "n", "u", "e">> -> "CONTINUE"
      [] lexeme = <<"r", "e", "t", "u", "r", "n">> -> "RETURN"
      [] lexeme = <<"t", "r", "u", "e">> -> "TRUE"
      [] lexeme = <<"f", "a", "l", "s", "e">> -> "FALSE"
      [] OTHER -> "IDENTIFIER"

RECURSIVE NumberRun(_, _)
\* The while loop of lexing_number: the cursor after the run and the lexeme.
NumberRun(L, lexeme) ==
    IF L.offset < Len(source) /\ IsDigit(Peek(L))
    THEN NumberRun(Advance(L), Append(lexeme, Peek(L)))
    ELSE [cursor |-> L, lexeme |-> lexeme]

RECURSIVE StringRun(_, _)
\* The while loop of lexing_string: everything up to a closing quote.
StringRun(L, lexeme) ==
    IF L.offset < Len(source) /\ Peek(L) # "\""
    THEN StringRun(Advance(L), Append(lexeme, Peek(L)))
    ELSE [cursor |-> L, lexeme |-> lexeme]

RECURSIVE IdentifierRun(_, _)
\* The while loop of lexing_identifier.
IdentifierRun(L, lexeme) ==
    IF L.offset < Len(source) /\ (IsAlnum(Peek(L)) \/ Peek(L) = "_")
    THEN IdentifierRun(Advance(L), Append(lexeme, Peek(L)))
    ELSE [cursor |-> L, lexeme |-> lexeme]

NoLexError == [message |-> "none"]

Here == Cursor(current_offset, current_line, current_column)

\* Move the lexer to cursor L, with the token vector toks.
LexerMoves(L, toks) ==
    /\ current_offset' = L.offset
    /\ current_line' = L.line
    /\ current_column' = L.column
    /\ tokens' = toks

ParserUntouched == UNCHANGED <<pos, statements, parseError, oobRead>>

DriverUntouched == UNCHANGED ast_json

\* tokenize, isspace branch.
LexWhitespace ==
    /\ pc = "lex"
    /\ current_offset < Len(source)
    /\ IsSpace(Peek(Here))
    /\ LexerMoves(Advance(Here), tokens)
    /\ UNCHANGED <<source, lexError, pc>>
    /\ ParserUntouched
    /\ DriverUntouched

\* tokenize, isdigit branch: lexing_number.
LexNumber ==
    /\ pc = "lex"
    /\ current_offset < Len(source)
    /\ IsDigit(Peek(Here))
    /\ LET r == NumberRun(Here, <<>>)
       IN LexerMoves(r.cursor,
                     Append(tokens, CreateToken("NUMBER", r.lexeme, r.cursor)))
    /\ UNCHANGED <<source, lexError, pc>>
    /\ ParserUntouched
    /\ DriverUntouched

\* tokenize, '"' branch: lexing_string.  At the end of the buffer it
\* reports current_line and exits.
LexString ==
    /\ pc = "lex"
    /\ current_offset < Len(source)
    /\ Peek(Here) = "\""
    /\ LET r == StringRun(Advance(Here), <<>>)
           closed == Advance(r.cursor)
       IN IF r.cursor.offset >= Len(source)
          THEN /\ LexerMoves(r.cursor, tokens)
               /\ lexError' = [message |-> "String not closed",
                               line |-> r.cursor.line]
               /\ pc' = "lex_exit"
          ELSE /\ LexerMoves(closed,
                             Append(tokens, CreateToken("STRING", r.lexeme, closed)))
               /\ UNCHANGED <<lexError, pc>>
    /\ UNCHANGED source
    /\ ParserUntouched
    /\ DriverUntouched

\* tokenize, isalpha or '_' branch: lexing_identifier.
LexIdentifier ==
    /\ pc = "lex"
    /\ current_offset < Len(source)
    /\ IsAlpha(Peek(Here)) \/ Peek(Here) = "_"
    /\ LET r == IdentifierRun(Here, <<>>)
       IN LexerMoves(r.cursor,
                     Append(tokens,
                            CreateToken(KeywordType(r.lexeme), r.lexeme, r.cursor)))
    /\ UNCHANGED <<source, lexError, pc>>
    /\ ParserUntouched
    /\ DriverUntouched

\* tokenize, the switch cases '=', '!', '<', '>', '&', '|'.
LexLookahead ==
    /\ pc = "lex"
    /\ current_offset < Len(source)
    /\ Peek(Here) \in DOMAIN LookaheadTokens
    /\ LET c == Peek(Here)
           e == LookaheadTokens[c]
           one == Advance(Here)
           two == Advance(one)
       IN IF Peek(one) = e.second
          THEN LexerMoves(two,
                          Append(tokens, CreateToken(e.both, <<c, e.second>>, two)))
          ELSE LexerMoves(one,
                          Append(tokens, CreateToken(e.single, <<c>>, one)))
    /\ UNCHANGED <<source, lexError, pc>>
    /\ ParserUntouched
    /\ DriverUntouched

\* tokenize, the one-character switch cases.
LexSingle ==
    /\ pc = "lex"
    /\ current_offset < Len(source)
    /\ Peek(Here) \in DOMAIN SingleCharTokens
    /\ LET c == Peek(Here)
           one == Advance(Here)
       IN LexerMoves(one, Append(tokens, CreateToken(SingleCharTokens[c], <<c>>, one)))
    /\ UNCHANGED <<source, lexError, pc>>
    /\ ParserUntouched
    /\ DriverUntouched

IsKnownStart(c) ==
    \/ IsSpace(c)
    \/ IsDigit(c)
    \/ c = "\""
    \/ IsAlpha(c)
    \/ c = "_"
    \/ c \in DOMAIN LookaheadTokens
    \/ c \in DOMAIN SingleCharTokens

\* Error::errorMessage: what the rendered message is made of.  The body
\* line prints Contents[loc.line - 1], one character of the buffer, and the
\* underline has end_column - start_column carets.
ErrorMessage(local, message, loc, Contents) ==
    [local |-> local,
     message |-> message,
     line |-> loc.line,
     column |-> loc.start_column,
     text |-> <<Contents[(loc.line - 1) + 1]>>,
     carets |-> loc.end_column - loc.start_column]

\* tokenize, default case: errorMessage(create_loc(advance())), exit(-1).
LexUnknown ==
    /\ pc = "lex"
    /\ current_offset < Len(source)
    /\ ~IsKnownStart(Peek(Here))
    /\ LET c == Peek(Here)
           one == Advance(Here)
       IN /\ LexerMoves(one, tokens)
          /\ lexError' = [message |-> "Unknown character",
                          loc |-> CreateLoc(<<c>>, one),
                          report |-> ErrorMessage("lexer", "Unknown character",
                                                  CreateLoc(<<c>>, one),
                                                  source)]
    /\ pc' = "lex_exit"
    /\ UNCHANGED source
    /\ ParserUntouched
    /\ DriverUntouched

\* tokenize returns at the end of the buffer; the driver hands the tokens
\* to a Parser (farpy.cpp).
\* the loop of tokenize ending one character before the end of the buffer.
LexReturnEarly ==
    /\ pc = "lex"
    /\ current_offset + 1 >= Len(source)
    /\ pc' = "parse"
    /\ UNCHANGED <<source, tokens, current_offset, current_line,
                   current_column, lexError>>
    /\ ParserUntouched
    /\ DriverUntouched

LexReturn ==
    /\ pc = "lex"
    /\ current_offset >= Len(source)
    /\ pc' = "parse"
    /\ UNCHANGED <<source, tokens, current_offset, current_line,
                   current_column, lexError>>
    /\ ParserUntouched
    /\ DriverUntouched

(***************************************************************************)
(* AST nodes (src/src/parser/ast/ast.hpp)                                  *)
(***************************************************************************)
Null == [type |-> "nullptr"]

NumberNode(value, l) ==
    [kind |-> "Number", type |-> "number", value |-> value, loc |-> l]

StringNode(value, l) ==
    [kind |-> "String", type |-> "string", value |-> value, loc |-> l]

IdentifierNode(value, l) ==
    [kind |-> "Identifier", type |-> "identifier", value |-> value, loc |-> l]

BinaryOpNode(op, left, right, l) ==
    [kind |-> "BinaryOp", type |-> "binaryOp", op |-> op,
     left |-> left, right |-> right, loc |-> l]

VarDeclarationNode(id, value, mut, l) ==
    [kind |-> "VarDeclaration", type |-> "varDeclaration",
     identifier |-> id.lexeme, value |-> value, mut |-> mut, loc |-> l]

\* enum class NodeType as nlohmann::json stores it: the enumerator's value.
NodeType ==
    [kind \in {"Number", "String", "Identifier", "BinaryOp", "VarDeclaration"} |->
        CASE kind = "Number" -> 0
          [] kind = "String" -> 1
          [] kind = "Identifier" -> 2
          [] kind = "BinaryOp" -> 3
          [] kind = "VarDeclaration" -> 4]

\* The "loc" object every toJson builds.
LocJson(l) ==
    [line |-> l.line, start_column |-> l.start_column,
     end_column |-> l.end_column]

JsonNull == [json |-> "null"]

\* A JSON string and a JSON number, as json::operator= stores a
\* std::string and an enum.
JsonString(text) == [string |-> text]

JsonNumber(n) == [number |-> n]

RECURSIVE ToJson(_)
\* toJson of each node class; a null child becomes json(nullptr).
\* StringNode::toJson assigns the enum member kind where the others assign
\* the string member type.
ToJson(node) ==
    CASE node = Null -> JsonNull
      [] node.kind = "Number" ->
            [kind |-> JsonString(node.type), value |-> node.value,
             loc |-> LocJson(node.loc)]
      [] node.kind = "String" ->
            [kind |-> JsonNumber(NodeType[node.kind]), value |-> node.value,
             loc |-> LocJson(node.loc)]
      [] node.kind = "Identifier" ->
            [kind |-> JsonString(node.type), value |-> node.value,
             loc |-> LocJson(node.loc)]
      [] node.kind = "BinaryOp" ->
            [kind |-> JsonString(node.type), operator |-> node.op,
             loc |-> LocJson(node.loc),
             left |-> ToJson(node.left), right |-> ToJson(node.right)]
      [] node.kind = "VarDeclaration" ->
            [kind |-> JsonString(node.type), identifier |-> node.identifier,
             mutable |-> node.mut, value |-> ToJson(node.value),
             loc |-> LocJson(node.loc)]

(***************************************************************************)
(* Parser                                                                  *)
(***************************************************************************)
DigitValue(c) ==
    CASE c = "0" -> 0 [] c = "1" -> 1 [] c = "2" -> 2 [] c = "3" -> 3
      [] c = "4" -> 4 [] c = "5" -> 5 [] c = "6" -> 6 [] c = "7" -> 7
      [] c = "8" -> 8 [] c = "9" -> 9

RECURSIVE DigitPrefix(_)
\* The longest prefix of decimal digits.
DigitPrefix(lexeme) ==
    IF lexeme # <<>> /\ IsDigit(Head(lexeme))
    THEN <<Head(lexeme)>> \o DigitPrefix(Tail(lexeme))
    ELSE <<>>

RECURSIVE DecimalValue(_)
DecimalValue(digits) ==
    IF digits = <<>> THEN 0
    ELSE 10 * DecimalValue(SubSeq(digits, 1, Len(digits) - 1))
         + DigitValue(digits[Len(digits)])

\* std::stod on a lexeme of the model's alphabet: the value of the leading
\* decimal digits; std::invalid_argument when there is none.
Stod(lexeme) ==
    IF DigitPrefix(lexeme) = <<>>
    THEN [ok |-> FALSE, value |-> 0]
    ELSE [ok |-> TRUE, value |-> DecimalValue(DigitPrefix(lexeme))]

\* getPrecedence with the additive and the multiplicative level exchanged.
GetPrecedenceAdditiveTighter(type) ==
    CASE type \in {"ASSIGN", "PLUS_ASSIGN", "MINUS_ASSIGN", "STAR_ASSIGN",
                   "SLASH_ASSIGN", "PERCENT_ASSIGN"} -> 1
      [] type = "OR" -> 2
      [] type = "AND" -> 3
      [] type \in {"EQUAL_EQUAL", "BANG_EQUAL", "NOT_EQUAL"} -> 7
      [] type \in {"LESS", "LESS_EQUAL", "GREATER", "GREATER_EQUAL"} -> 8
      [] type \in {"AMPERSAND", "PIPE", "CARET"} -> 9
      [] type \in {"PLUS", "MINUS"} -> 20
      [] type \in {"STAR", "SLASH", "PERCENT"} -> 10
      [] type = "POWERING" -> 30
      [] OTHER -> 0

\* getPrecedence with the lexer's EQUAL on the assignment level, a kind led
\* has no case for.
GetPrecedenceEqualAssigns(type) ==
    CASE type \in {"ASSIGN", "PLUS_ASSIGN", "MINUS_ASSIGN", "STAR_ASSIGN",
                   "SLASH_ASSIGN", "PERCENT_ASSIGN", "EQUAL"} -> 1
      [] type = "OR" -> 2
      [] type = "AND" -> 3
      [] type \in {"EQUAL_EQUAL", "BANG_EQUAL", "NOT_EQUAL"} -> 7
      [] type \in {"LESS", "LESS_EQUAL", "GREATER", "GREATER_EQUAL"} -> 8
      [] type \in {"AMPERSAND", "PIPE", "CARET"} -> 9
      [] type \in {"PLUS", "MINUS"} -> 10
      [] type \in {"STAR", "SLASH", "PERCENT"} -> 20
      [] type = "POWERING" -> 30
      [] OTHER -> 0

GetPrecedence(type) ==
    CASE type \in {"ASSIGN", "PLUS_ASSIGN", "MINUS_ASSIGN", "STAR_ASSIGN",
                   "SLASH_ASSIGN", "PERCENT_ASSIGN"} -> 1
      [] type = "OR" -> 2
      [] type = "AND" -> 3
      [] type \in {"EQUAL_EQUAL", "BANG_EQUAL", "NOT_EQUAL"} -> 7
      [] type \in {"LESS", "LESS_EQUAL", "GREATER", "GREATER_EQUAL"} -> 8
      [] type \in {"AMPERSAND", "PIPE", "CARET"} -> 9
      [] type \in {"PLUS", "MINUS"} -> 10
      [] type \in {"STAR", "SLASH", "PERCENT"} -> 20
      [] type = "POWERING" -> 30
      [] OTHER -> 0

\* The operator text each case of Parser::led gives its BinaryOpNode.
LedText ==
    [type \in {"PLUS", "MINUS", "STAR", "SLASH", "PERCENT", "POWERING", "OR",
               "AND", "EQUAL_EQUAL", "BANG_EQUAL", "NOT_EQUAL", "LESS",
               "LESS_EQUAL", "GREATER", "GREATER_EQUAL", "AMPERSAND", "PIPE",
               "CARET", "ASSIGN", "PLUS_ASSIGN", "MINUS_ASSIGN", "STAR_ASSIGN",
               "SLASH_ASSIGN", "PERCENT_ASSIGN"} |->
        CASE type = "PLUS" -> <<"+">>
          [] type = "MINUS" -> <<"-">>
          [] type = "STAR" -> <<"*">>
          [] type = "SLASH" -> <<"/">>
          [] type = "PERCENT" -> <<"%">>
          [] type = "POWERING" -> <<"*", "*">>
          [] type = "OR" -> <<"o", "r">>
          [] type = "AND" -> <<"a", "n", "d">>
          [] type = "EQUAL_EQUAL" -> <<"=", "=">>
          [] type = "BANG_EQUAL" -> <<"!", "=">>
          [] type = "NOT_EQUAL" -> <<"!", "=">>
          [] type = "LESS" -> <<"<">>
          [] type = "LESS_EQUAL" -> <<"<", "=">>
          [] type = "GREATER" -> <<">">>
          [] type = "GREATER_EQUAL" -> <<">", "=">>
          [] type = "AMPERSAND" -> <<"&">>
          [] type = "PIPE" -> <<"|">>
          [] type = "CARET" -> <<"^">>
          [] type = "ASSIGN" -> <<"=">>
          [] type = "PLUS_ASSIGN" -> <<"+", "=">>
          [] type = "MINUS_ASSIGN" -> <<"-", "=">>
          [] type = "STAR_ASSIGN" -> <<"*", "=">>
          [] type = "SLASH_ASSIGN" -> <<"/", "=">>
          [] type = "PERCENT_ASSIGN" -> <<"%", "=">>]

\* The binding power Parser::led hands to expression() for its right
\* operand: precedence - 1 in the cases commented right-associative.
\* led that recurses with the operator's own precedence in every case.
LedRbpAlwaysSame(type) == GetPrecedence(type)

\* led that lowers the precedence for the recursive call in every case.
LedRbpAlwaysLower(type) == GetPrecedence(type) - 1

LedRbp(type) ==
    IF type \in {"POWERING", "ASSIGN", "PLUS_ASSIGN", "MINUS_ASSIGN",
                 "STAR_ASSIGN", "SLASH_ASSIGN", "PERCENT_ASSIGN"}
    THEN GetPrecedence(type) - 1
    ELSE GetPrecedence(type)

NoParseError == [kind |-> "none"]

\* tokens[p] for a zero-based p.  Outside the vector the read is undefined
\* behaviour: it yields whatever token g the memory there happens to hold.
InRange(p) == 0 <= p /\ p < Len(tokens)

TokenAt(g, p) == IF InRange(p) THEN tokens[p + 1] ELSE g

\* isAtEnd without the test for END_OF_FILE.
IsAtEndOfVector(p) == p >= Len(tokens)

IsAtEnd(p) ==
    IF p >= Len(tokens) THEN TRUE ELSE tokens[p + 1].type = "END_OF_FILE"

\* What a parser routine hands back: the node, the cursor, how it ended
\* ("ok", "throw" for a std::exception, "exit" for exit()), what it
\* reported, and whether it read outside the token vector.
Result(node, p, st, err, oob) ==
    [node |-> node, pos |-> p, st |-> st, err |-> err, oob |-> oob]

\* Parser::consume at cursor p: on a match pos++ and return tokens[pos - 2];
\* otherwise report the message and peek().lexeme, and exit(-1).
Consume(g, p, t, message) ==
    IF TokenAt(g, p).type = t
    THEN [st |-> "ok", pos |-> p + 1, ret |-> TokenAt(g, p - 1),
          err |-> NoParseError, oob |-> ~InRange(p) \/ ~InRange(p - 1)]
    ELSE [st |-> "exit", pos |-> p, ret |-> g,
          err |-> [kind |-> "consume", message |-> message,
                   value |-> TokenAt(g, p).lexeme],
          oob |-> ~InRange(p)]

RECURSIVE Expression(_, _, _)
RECURSIVE InfixLoop(_, _, _, _, _)
RECURSIVE Led(_, _, _, _)
RECURSIVE Nud(_, _, _)
RECURSIVE ParseNewDecl(_, _)

\* Parser::expression(rbp) entered with the cursor at p.
Expression(g, p, rbp) ==
    LET t == TokenAt(g, p)                 \* advance()
        n == Nud(g, t, p + 1)
        oob == ~InRange(p) \/ n.oob
    IN IF n.st # "ok" THEN [n EXCEPT !.oob = oob]
       ELSE IF n.node = Null THEN Result(Null, n.pos, "ok", NoParseError, oob)
       ELSE InfixLoop(g, n.node, n.pos, rbp, oob)

\* The while loop of Parser::expression, left operand in hand, cursor at p.
InfixLoop(g, left, p, rbp, oob) ==
    IF IsAtEnd(p) \/ ~(rbp < GetPrecedence(TokenAt(g, p).type))
    THEN Result(left, p, "ok", NoParseError, oob)
    ELSE LET opToken == TokenAt(g, p)      \* advance()
             right == Led(g, left, opToken, p + 1)
         IN IF right.st # "ok" THEN [right EXCEPT !.oob = oob \/ right.oob]
            ELSE InfixLoop(g, right.node, right.pos, rbp, oob \/ right.oob)

\* Parser::nud(token), the cursor already behind the token.
Nud(g, token, p) ==
    CASE token.type = "END_OF_FILE" ->
            Result(Null, p, "ok", NoParseError, FALSE)
      [] token.type = "NUMBER" ->
            IF Stod(token.lexeme).ok
            THEN Result(NumberNode(Stod(token.lexeme).value, token.loc),
                        p, "ok", NoParseError, FALSE)
            ELSE Result(Null, p, "throw",
                        [kind |-> "stod", value |-> token.lexeme], FALSE)
      [] token.type = "STRING" ->
            Result(StringNode(token.lexeme, token.loc), p, "ok",
                   NoParseError, FALSE)
      [] token.type = "IDENTIFIER" ->
            Result(IdentifierNode(token.lexeme, token.loc), p, "ok",
                   NoParseError, FALSE)
      [] token.type = "NEW" -> ParseNewDecl(g, p)
      [] OTHER ->
            Result(Null, p, "throw",
                   [kind |-> "nud", value |-> token.lexeme], FALSE)

\* Parser::led(left, token), the cursor already behind the operator token.
Led(g, left, token, p) ==
    IF token.type \in DOMAIN LedText
    THEN LET right == Expression(g, p, LedRbp(token.type))
         IN IF right.st # "ok" THEN right
            ELSE Result(BinaryOpNode(LedText[token.type], left, right.node,
                                     token.loc),
                        right.pos, "ok", NoParseError, right.oob)
    ELSE Result(Null, p, "exit",
                [kind |-> "led", value |-> token.lexeme], FALSE)

\* consume() call `next` made after the calls summed up in `done`.
After(done, next) == [next EXCEPT !.oob = done.oob \/ next.oob]

\* parse_new_decl ends in the exit(-1) of the consume() call c.
DeclExit(c) == Result(Null, c.pos, "exit", c.err, c.oob)

\* parse_new_decl from `auto value = expression(0)` on.
DeclValue(g, newToken, isMutable, varName, equal, value) ==
    IF value.st # "ok" THEN [value EXCEPT !.oob = equal.oob \/ value.oob]
    ELSE IF value.node = Null
         THEN Result(Null, value.pos, "throw",
                     [kind |-> "decl",
                      message |-> "Expected expression after '='"],
                     equal.oob \/ value.oob)
    ELSE Result(VarDeclarationNode(varName.ret, value.node, isMutable,
                                   newToken.ret.loc),
                value.pos, "ok", NoParseError, equal.oob \/ value.oob)

\* parse_new_decl after consume(EQUAL).
DeclEqual(g, newToken, isMutable, varName, equal) ==
    IF equal.st # "ok" THEN DeclExit(equal)
    ELSE DeclValue(g, newToken, isMutable, varName, equal,
                   Expression(g, equal.pos, 0))

\* parse_new_decl after consume(IDENTIFIER) for the type.
DeclType(g, newToken, isMutable, varName, typeToken) ==
    IF typeToken.st # "ok" THEN DeclExit(typeToken)
    ELSE DeclEqual(g, newToken, isMutable, varName,
                   After(typeToken,
                         Consume(g, typeToken.pos, "EQUAL",
                                 "Expected '=' after type")))

\* parse_new_decl after consume(COLON).
DeclColon(g, newToken, isMutable, varName, colon) ==
    IF colon.st # "ok" THEN DeclExit(colon)
    ELSE DeclType(g, newToken, isMutable, varName,
                  After(colon,
                        Consume(g, colon.pos, "IDENTIFIER",
                                "Expected type after ':'")))

\* parse_new_decl after consume(IDENTIFIER) for the name.
DeclName(g, newToken, isMutable, varName) ==
    IF varName.st # "ok" THEN DeclExit(varName)
    ELSE DeclColon(g, newToken, isMutable, varName,
                   After(varName,
                         Consume(g, varName.pos, "COLON",
                                 "Expected ':' after variable name")))

\* parse_new_decl after the optional consume(MUT).
DeclMut(g, newToken, isMutable, mutToken) ==
    IF mutToken.st # "ok" THEN DeclExit(mutToken)
    ELSE DeclName(g, newToken, isMutable,
                  After(mutToken,
                        Consume(g, mutToken.pos, "IDENTIFIER",
                                "Expected identifier for variable name")))

\* parse_new_decl after consume(NEW): peek().type == MUT ?
DeclNew(g, newToken, isMutable) ==
    IF newToken.st # "ok" THEN DeclExit(newToken)
    ELSE DeclMut(g, newToken, isMutable,
                 IF isMutable
                 THEN After(newToken,
                            Consume(g, newToken.pos, "MUT", "Expected 'mut'"))
                 ELSE [newToken EXCEPT
                          !.oob = newToken.oob \/ ~InRange(newToken.pos)])

\* Parser::parse_new_decl entered with the cursor at p.  Each peek() that
\* only prints reads the position the next consume() or advance() reads.
ParseNewDecl(g, p) ==
    DeclNew(g, Consume(g, p, "NEW", "Expected 'new'"),
            TokenAt(g, p + 1).type = "MUT")

(***************************************************************************)
(* Inputs                                                                  *)
(***************************************************************************)
\* Source texts: every text of at most MaxLen characters over SourceChars,
\* and the longer texts of NamedSources.
SourceChars == {" ", "\n", "1", "x", "\"", "=", "@"}

ShortSources == UNION {[1..n -> SourceChars] : n \in 0..MaxLen}

RoundTripSource ==
    <<"x", " ", "=", " ", "1", " ", "+", " ", "2", " ", "*", " ", "3">>

PowerSource == <<"a", " ", "*", "*", " ", "b", " ", "*", "*", " ", "c">>

NamedSources ==
    {RoundTripSource,
     PowerSource,
     <<"i", "f", " ", "i", "f", "f", "y", " ", "_", "k", "9", "\n", "\t", "4", "2">>,
     <<"=", "=", "!", "=", "<", "=", ">", "=", "&", "&", "|", "|">>,
     <<"!", "<", ">", "&", "|", "(", ")", "{", "}", "[", "]", "~", "?">>,
     <<"+", "-", "/", "%", "^", ",", ";", ":", ".", "\"", "a", "\n", "b", "\"">>}

\* Two-character texts over the first characters of the lookahead cases and
\* a digit: every compound operator and every mismatching second character.
PairChars == {"=", "!", "<", ">", "&", "|", "1"}

PairSources == {<<a, b>> : a \in PairChars, b \in PairChars}

\* Integer literals of at most MaxLen digits, and one of all ten digits.
LiteralDigits == {"0", "4", "9"}

DigitSources ==
    UNION {[1..n -> LiteralDigits] : n \in 1..MaxLen}
        \cup {<<"1", "2", "3", "4", "5", "6", "7", "8", "9", "0">>}

\* Texts of spaces, tabs and newlines only, the empty text included.
WhitespaceSources == UNION {[1..n -> {" ", "\t", "\n"}] : n \in 0..MaxLen}

\* The eleven keywords, each as a whole source text.
KeywordSources ==
    {<<"i", "f">>,
     <<"e", "l", "s", "e">>,
     <<"w", "h", "i", "l", "e">>,
     <<"f", "o", "r">>,
     <<"f", "o", "r", "e", "a", "c", "h">>,
     <<"d", "o">>,
     <<"b", "r", "e", "a", "k">>,
     <<"c", "o", "n", "t", "i", "n", "u", "e">>,
     <<"r", "e", "t", "u", "r", "n">>,
     <<"t", "r", "u", "e">>,
     <<"f", "a", "l", "s", "e">>}

\* Words that are no keyword: longer, shorter, or in another case.
WordSources ==
    {<<"i", "f", "f", "y">>,
     <<"I", "f">>,
     <<"f", "o", "r", "_">>,
     <<"_", "x", "9">>,
     <<"f", "o", "r", "e">>,
     <<"d", "o", "o">>,
     <<"T", "r", "u", "e">>,
     <<"F", "A", "L", "S", "E">>,
     <<"x", "1">>,
     <<"w", "h", "i", "l", "e", "(", "d", "o", "_", "1", " ", "d", "o", ")", "2", "f", "o", "r">>}

\* The spellings of the power operator and of the assignment operators.
AssignmentSources ==
    {<<"*", "*">>, <<"+", "=">>, <<"-", "=">>, <<"*", "=">>, <<"/", "=">>,
     <<"%", "=">>}

Sources ==
    ShortSources \cup NamedSources \cup PairSources \cup DigitSources
        \cup WhitespaceSources \cup KeywordSources \cup WordSources
        \cup AssignmentSources

\* Token vectors handed to a Parser directly.  A token is spelled as the
\* source spells its kind and sits at a column derived from its index i.
Spelling(type) ==
    CASE type = "NUMBER" -> <<"1">>
      [] type = "STRING" -> <<"s">>
      [] type = "IDENTIFIER" -> <<"x">>
      [] type = "NEW" -> <<"n", "e", "w">>
      [] type = "MUT" -> <<"m", "u", "t">>
      [] type = "COLON" -> <<":">>
      [] type = "EQUAL" -> <<"=">>
      [] type = "RIGHT_PAREN" -> <<")">>
      [] type = "IF" -> <<"i", "f">>
      [] type = "END_OF_FILE" -> <<>>
      [] type = "OR" -> <<"|", "|">>
      [] type = "AND" -> <<"&", "&">>
      [] OTHER -> LedText[type]

Tok(type, lexeme, i) ==
    [type |-> type, lexeme |-> lexeme,
     loc |-> [line |-> 1, start_column |-> 4 * (i - 1),
              end_column |-> 4 * (i - 1) + Len(lexeme)]]

\* Re-index a sequence of <<type, lexeme>> pairs into tokens.
Toks(pairs) == [i \in 1..Len(pairs) |-> Tok(pairs[i][1], pairs[i][2], i)]

Kind(type) == <<type, Spelling(type)>>

Ident(name) == <<"IDENTIFIER", <<name>>>>

Num(digit) == <<"NUMBER", <<digit>>>>

BinaryOperators == DOMAIN LedText

\* a op1 b op2 c
InfixPairs(a, op1, b, op2, c) == <<a, Kind(op1), b, Kind(op2), c>>

OperandsB == {Ident("b"), Num("2")}

OperandsC == {Ident("c"), Num("1"), Kind("STRING")}

InfixInputs ==
    {Toks(InfixPairs(Ident("a"), op1, b, op2, c)) :
        op1 \in BinaryOperators, op2 \in BinaryOperators,
        b \in OperandsB, c \in OperandsC}

\* Declarations: the keyword once or twice, an optional marker, then the
\* body name : type = initializer, whole, with one token left out, or cut.
DeclBody == <<Ident("v"), Kind("COLON"), Ident("t"), Kind("EQUAL"), Num("7")>>

Without(seq, i) == SubSeq(seq, 1, i - 1) \o SubSeq(seq, i + 1, Len(seq))

DeclBodies ==
    {DeclBody, DeclBody \o <<Kind("PLUS"), Num("2")>>}
    \cup {Without(DeclBody, i) : i \in 1..Len(DeclBody)}
    \cup {SubSeq(DeclBody, 1, n) : n \in 0..(Len(DeclBody) - 1)}

DeclInputs ==
    {Toks(keyword \o marker \o body) :
        keyword \in {<<Kind("NEW")>>, <<Kind("NEW"), Kind("NEW")>>},
        marker \in {<<>>, <<Kind("MUT")>>},
        body \in DeclBodies}

TokenPalette ==
    {Kind("NUMBER"), Kind("IDENTIFIER"), Kind("STRING"), Kind("PLUS"),
     Kind("ASSIGN"), Kind("EQUAL"), Kind("RIGHT_PAREN"), Kind("NEW"),
     Kind("IF"), Kind("END_OF_FILE")}

ShortInputs == {Toks(p) : p \in UNION {[1..n -> TokenPalette] : n \in 0..MaxTokens}}

TokenInputs == InfixInputs \cup DeclInputs \cup ShortInputs

\* What a read outside the token vector may find there.
GarbageTokens ==
    {Tok(type, Spelling(type), 1) :
        type \in {"NUMBER", "PLUS", "NEW", "RIGHT_PAREN", "END_OF_FILE"}}

(***************************************************************************)
(* The program                                                             *)
(***************************************************************************)
\* Either a Lexer constructed on a source text (farpy.cpp then parses what
\* it returns), or a Parser constructed on a token vector.
Init ==
    /\ current_offset = 0
    /\ current_line = 1
    /\ current_column = 0
    /\ lexError = NoLexError
    /\ pos = 0
    /\ statements = <<>>
    /\ parseError = NoParseError
    /\ oobRead = FALSE
    /\ ast_json = <<>>
    /\ \/ /\ pc = "lex"
          /\ source \in Sources
          /\ tokens = <<>>
       \/ /\ pc = "parse"
          /\ source = <<>>
          /\ tokens \in TokenInputs

LexerUntouched ==
    UNCHANGED <<source, tokens, current_offset, current_line, current_column,
                lexError>>

\* One iteration of the loop of Parser::parse whose expression(0) returns.
ParseStatement ==
    /\ pc = "parse"
    /\ ~IsAtEnd(pos)
    /\ \E g \in GarbageTokens :
          LET stmt == Expression(g, pos, 0)
          IN /\ stmt.st = "ok"
             /\ pos' = stmt.pos
             /\ statements' = IF stmt.node # Null
                              THEN Append(statements, stmt.node)
                              ELSE statements
             /\ oobRead' = (oobRead \/ stmt.oob)
    /\ UNCHANGED <<parseError, pc>>
    /\ LexerUntouched
    /\ DriverUntouched

\* One iteration whose expression(0) throws: the catch block reports and
\* breaks, and parse returns the statements collected so far.
ParseCatch ==
    /\ pc = "parse"
    /\ ~IsAtEnd(pos)
    /\ \E g \in GarbageTokens :
          LET stmt == Expression(g, pos, 0)
          IN /\ stmt.st = "throw"
             /\ pos' = stmt.pos
             /\ parseError' = stmt.err
             /\ oobRead' = (oobRead \/ stmt.oob)
    /\ pc' = "done"
    /\ UNCHANGED statements
    /\ LexerUntouched
    /\ DriverUntouched

\* One iteration in which consume() or led() calls exit().
ParseExit ==
    /\ pc = "parse"
    /\ ~IsAtEnd(pos)
    /\ \E g \in GarbageTokens :
          LET stmt == Expression(g, pos, 0)
          IN /\ stmt.st = "exit"
             /\ pos' = stmt.pos
             /\ parseError' = stmt.err
             /\ oobRead' = (oobRead \/ stmt.oob)
    /\ pc' = "parse_exit"
    /\ UNCHANGED statements
    /\ LexerUntouched
    /\ DriverUntouched

\* One iteration that reads outside the token vector and faults there.
ParseFault ==
    /\ pc = "parse"
    /\ ~IsAtEnd(pos)
    /\ \E g \in GarbageTokens : Expression(g, pos, 0).oob
    /\ oobRead' = TRUE
    /\ pc' = "fault"
    /\ UNCHANGED <<pos, statements, parseError>>
    /\ LexerUntouched
    /\ DriverUntouched

\* The loop of Parser::parse ends: isAtEnd().
ParseReturn ==
    /\ pc = "parse"
    /\ IsAtEnd(pos)
    /\ pc' = "done"
    /\ UNCHANGED <<pos, statements, parseError, oobRead>>
    /\ LexerUntouched
    /\ DriverUntouched

\* main() after parse returned: every node's toJson is pushed to ast_json,
\* which is printed.
DumpAst ==
    /\ pc = "done"
    /\ ast_json' = [i \in 1..Len(statements) |-> ToJson(statements[i])]
    /\ pc' = "dumped"
    /\ UNCHANGED <<pos, statements, parseError, oobRead>>
    /\ LexerUntouched

Next ==
    \/ LexWhitespace
    \/ LexNumber
    \/ LexString
    \/ LexIdentifier
    \/ LexLookahead
    \/ LexSingle
    \/ LexUnknown
    \/ LexReturn
    \/ ParseStatement
    \/ ParseCatch
    \/ ParseExit
    \/ ParseFault
    \/ ParseReturn
    \/ DumpAst

Spec == Init /\ [][Next]_vars

\* One iteration of the loop of Lexer::tokenize, or its return.
Tokenize ==
    \/ LexWhitespace
    \/ LexNumber
    \/ LexString
    \/ LexIdentifier
    \/ LexLookahead
    \/ LexSingle
    \/ LexUnknown
    \/ LexReturn

\* The call of tokenize runs on: the process is not suspended in the loop.
FairSpec == Spec /\ WF_vars(Tokenize)

(***************************************************************************)
(* Vocabulary of the properties                                            *)
(***************************************************************************)
\* Trees as the specification writes them: a node without its span.
Number(value) == [type |-> "number", value |-> value]

String(value) == [type |-> "string", value |-> value]

Identifier(name) == [type |-> "identifier", value |-> name]

BinaryOp(op, left, right) ==
    [type |-> "binaryOp", op |-> op, left |-> left, right |-> right]

VarDeclaration(name, mutable, initializer) ==
    [type |-> "varDeclaration", identifier |-> name, mutable |-> mutable,
     initializer |-> initializer]

RECURSIVE Shape(_)
Shape(node) ==
    CASE node.type = "binaryOp" ->
            BinaryOp(node.op, Shape(node.left), Shape(node.right))
      [] node.type = "varDeclaration" ->
            VarDeclaration(node.identifier, node.mut, Shape(node.value))
      [] node.type = "nullptr" -> Null
      [] OTHER -> [type |-> node.type, value |-> node.value]

Shapes(nodes) == [i \in 1..Len(nodes) |-> Shape(nodes[i])]

\* The operand a <<type, lexeme>> pair denotes.
Operand(pair) ==
    CASE pair[1] = "NUMBER" -> Number(DecimalValue(pair[2]))
      [] pair[1] = "STRING" -> String(pair[2])
      [] pair[1] = "IDENTIFIER" -> Identifier(pair[2])

\* The precedence table of the specification, by token kind.
TablePrecedence ==
    [type \in BinaryOperators |->
        CASE type \in {"ASSIGN", "PLUS_ASSIGN", "MINUS_ASSIGN", "STAR_ASSIGN",
                       "SLASH_ASSIGN", "PERCENT_ASSIGN"} -> 1
          [] type = "OR" -> 2
          [] type = "AND" -> 3
          [] type \in {"EQUAL_EQUAL", "BANG_EQUAL", "NOT_EQUAL"} -> 7
          [] type \in {"LESS", "LESS_EQUAL", "GREATER", "GREATER_EQUAL"} -> 8
          [] type \in {"AMPERSAND", "PIPE", "CARET"} -> 9
          [] type \in {"PLUS", "MINUS"} -> 10
          [] type \in {"STAR", "SLASH", "PERCENT"} -> 20
          [] type = "POWERING" -> 30]

TableRightAssociative ==
    {"ASSIGN", "PLUS_ASSIGN", "MINUS_ASSIGN", "STAR_ASSIGN", "SLASH_ASSIGN",
     "PERCENT_ASSIGN", "POWERING"}

\* The operator of a BinaryOp built for an operator token of this kind.
OperatorOf(type) == LedText[type]

\* The program has stopped: parse returned, or the process ended.
Stopped == pc \in {"done", "parse_exit", "fault", "lex_exit"}

\* Parser::parse returned exactly these trees, with nothing reported and no
\* read outside the token vector.
ParseYields(trees) ==
    /\ pc = "done"
    /\ parseError = NoParseError
    /\ ~oobRead
    /\ Shapes(statements) = trees

(***************************************************************************)
(* Properties                                                              *)
(***************************************************************************)
RoundTripTree ==
    BinaryOp(<<"=">>, Identifier(<<"x">>),
             BinaryOp(<<"+">>, Number(1),
                      BinaryOp(<<"*">>, Number(2), Number(3))))

\* C1: lexing the text x = 1 + 2 * 3 and parsing the tokens yields exactly
\* one top-level node, the assignment of 1 + (2 * 3) to x.
C1_RoundTrip ==
    (source = RoundTripSource /\ Stopped) => ParseYields(<<RoundTripTree>>)

\* The token vector is  a op1 b op2 c : three operands, two operators.
InfixCase ==
    /\ source = <<>>
    /\ Len(tokens) = 5
    /\ \A i \in {1, 3, 5} : tokens[i].type \in {"NUMBER", "STRING", "IDENTIFIER"}
    /\ \A i \in {2, 4} : tokens[i].type \in BinaryOperators

\* The i-th token as an operand, the i-th token's kind as an operator.
At(i) == Operand(<<tokens[i].type, tokens[i].lexeme>>)

Op(i) == OperatorOf(tokens[i].type)

Level(i) == TablePrecedence[tokens[i].type]

\* C2: for operators lo, hi with precedence(lo) < precedence(hi) in the
\* table, parsing  a lo b hi c  yields the one node lo(a, hi(b, c)) and
\* parsing  a hi b lo c  yields the one node lo(hi(a, b), c).
C2_Precedence ==
    (InfixCase /\ Stopped) =>
        /\ Level(2) < Level(4) =>
               ParseYields(<<BinaryOp(Op(2), At(1), BinaryOp(Op(4), At(3), At(5)))>>)
        /\ Level(4) < Level(2) =>
               ParseYields(<<BinaryOp(Op(4), BinaryOp(Op(2), At(1), At(3)), At(5))>>)

\* C2 witness: a + 2 * c has been parsed into +(a, *(2, c)).
C2_Witness ==
    /\ tokens = Toks(InfixPairs(Ident("a"), "PLUS", Num("2"), "STAR", Ident("c")))
    /\ ParseYields(<<BinaryOp(<<"+">>, Identifier(<<"a">>),
                              BinaryOp(<<"*">>, Number(2),
                                       Identifier(<<"c">>)))>>)

\* C3: for every right-associative operator op (the assignment family and
\* power), parsing  a op b op c  yields the one node op(a, op(b, c)).
C3_RightAssociative ==
    (/\ InfixCase
     /\ Stopped
     /\ tokens[2].type = tokens[4].type
     /\ tokens[2].type \in TableRightAssociative) =>
        ParseYields(<<BinaryOp(Op(2), At(1), BinaryOp(Op(4), At(3), At(5)))>>)

\* C3 witness: a = b = 1 has been parsed into =(a, =(b, 1)).
C3_Witness ==
    /\ tokens = Toks(InfixPairs(Ident("a"), "ASSIGN", Ident("b"), "ASSIGN", Num("1")))
    /\ ParseYields(<<BinaryOp(<<"=">>, Identifier(<<"a">>),
                              BinaryOp(<<"=">>, Identifier(<<"b">>),
                                       Number(1)))>>)

\* C4: for operators op1, op2 of one precedence level that is not
\* right-associative, parsing  a op1 b op2 c  yields op2(op1(a, b), c).
C4_LeftAssociative ==
    (/\ InfixCase
     /\ Stopped
     /\ Level(2) = Level(4)
     /\ Level(2) \in {2, 3, 7, 8, 9, 10, 20}) =>
        ParseYields(<<BinaryOp(Op(4), BinaryOp(Op(2), At(1), At(3)), At(5))>>)

\* C4 witness: a - b + 1 has been parsed into +(-(a, b), 1).
C4_Witness ==
    /\ tokens = Toks(InfixPairs(Ident("a"), "MINUS", Ident("b"), "PLUS", Num("1")))
    /\ ParseYields(<<BinaryOp(<<"+">>,
                              BinaryOp(<<"-">>, Identifier(<<"a">>),
                                       Identifier(<<"b">>)),
                              Number(1))>>)

\* The well-formed declarations among the inputs: the keyword once, the
\* marker or not, and a body with nothing left out.
WellFormedBodies ==
    {[body |-> DeclBody, initializer |-> Number(7)],
     [body |-> DeclBody \o <<Kind("PLUS"), Num("2")>>,
      initializer |-> BinaryOp(<<"+">>, Number(7), Number(2))]}

\* C5: parsing a well-formed declaration yields exactly one VarDeclaration
\* whose name is the lexeme of the name identifier, whose mutable flag tells
\* whether the marker was present, and whose initializer is the parsed
\* initializer expression.
C5_Declaration ==
    \A marker \in {<<>>, <<Kind("MUT")>>}, d \in WellFormedBodies :
        (tokens = Toks(<<Kind("NEW")>> \o marker \o d.body) /\ Stopped) =>
            ParseYields(<<VarDeclaration(<<"v">>, marker # <<>>,
                                         d.initializer)>>)

\* What consume() reports when the i-th token of the body is the one missing.
ExpectedMessage(i) ==
    CASE i = 1 -> "Expected identifier for variable name"
      [] i = 2 -> "Expected ':' after variable name"
      [] i = 3 -> "Expected type after ':'"
      [] i = 4 -> "Expected '=' after type"

\* C6: when a required token of a declaration (name, ':', type, '=') is
\* missing, parsing ends in a fatal error naming the expected token and the
\* lexeme found in its place, and no VarDeclaration is produced.
C6_ConsumeOrFail ==
    \A marker \in {<<>>, <<Kind("MUT")>>}, i \in 1..4 :
        (/\ tokens = Toks(<<Kind("NEW")>> \o marker \o Without(DeclBody, i))
         /\ Stopped) =>
            /\ pc = "parse_exit"
            /\ parseError.kind = "consume"
            /\ parseError.message = ExpectedMessage(i)
            /\ parseError.value = DeclBody[i + 1][2]
            /\ statements = <<>>

\* C7: an unterminated-string error reports the line on which the opening
\* quote stands, also when the unterminated text contains newlines.
C7_UnterminatedLine ==
    [][(pc = "lex" /\ lexError'.message = "String not closed")
           => lexError'.line = current_line]_vars

\* The line (one-based) and the column (zero-based) of the character at
\* zero-based offset off, counted on the source text itself.
NewlinesBefore(off) == {i \in 1..off : source[i] = "\n"}

LineAt(off) == 1 + Cardinality(NewlinesBefore(off))

ColumnAt(off) ==
    IF NewlinesBefore(off) = {} THEN off
    ELSE off - (CHOOSE i \in NewlinesBefore(off) :
                    \A j \in NewlinesBefore(off) : j <= i)

\* C8: the error for an unknown character spans exactly that character: its
\* line, start_column its zero-based column, end_column one more.
C8_UnknownCharacterSpan ==
    lexError.message = "Unknown character" =>
        /\ pc = "lex_exit"
        /\ ~IsKnownStart(source[current_offset])
        /\ lexError.loc.line = LineAt(current_offset - 1)
        /\ lexError.loc.start_column = ColumnAt(current_offset - 1)
        /\ lexError.loc.end_column = lexError.loc.start_column + 1

\* C8 witness: an unknown character met on the second line, after another
\* character of that line.
C8_Witness ==
    /\ lexError.message = "Unknown character"
    /\ lexError.loc = [line |-> 2, start_column |-> 1, end_column |-> 2]

\* C9: every token the lexer emits starts at the column the lexer was at
\* before the token's first character and ends at the column it is at after
\* the token's last character.
C9_TokenSpan ==
    [][(pc = "lex" /\ Len(tokens') = Len(tokens) + 1) =>
           /\ tokens'[Len(tokens')].loc.start_column = current_column
           /\ tokens'[Len(tokens')].loc.end_column = current_column']_vars

\* C10: every token the lexer emits has line >= 1,
\* 0 <= start_column <= end_column, and a span as long as its lexeme.
C10_SpanInvariant ==
    source # <<>> =>
        \A i \in 1..Len(tokens) :
            /\ tokens[i].loc.line >= 1
            /\ 0 <= tokens[i].loc.start_column
            /\ tokens[i].loc.start_column <= tokens[i].loc.end_column
            /\ tokens[i].loc.end_column - tokens[i].loc.start_column
                   = Len(tokens[i].lexeme)

\* C11: the tokens the lexer returns stand in source order and their spans
\* do not overlap: of two consecutive tokens the first is on an earlier
\* line, or on the same line and ends where or before the second starts.
C11_TokenOrder ==
    source # <<>> =>
        \A i \in 1..(Len(tokens) - 1) :
            \/ tokens[i].loc.line < tokens[i + 1].loc.line
            \/ /\ tokens[i].loc.line = tokens[i + 1].loc.line
               /\ tokens[i].loc.end_column <= tokens[i + 1].loc.start_column

\* C11 witness: three tokens on two lines have been returned.
C11_Witness ==
    /\ source = <<"1", "\n", "x", "=">>
    /\ pc = "parse"
    /\ Len(tokens) = 3

\* The two-character operators and the kind of each.
CompoundKind ==
    [pair \in {<<"=", "=">>, <<"!", "=">>, <<"<", "=">>, <<">", "=">>,
               <<"&", "&">>, <<"|", "|">>} |->
        CASE pair = <<"=", "=">> -> "EQUAL_EQUAL"
          [] pair = <<"!", "=">> -> "BANG_EQUAL"
          [] pair = <<"<", "=">> -> "LESS_EQUAL"
          [] pair = <<">", "=">> -> "GREATER_EQUAL"
          [] pair = <<"&", "&">> -> "AND"
          [] pair = <<"|", "|">> -> "OR"]

\* The kind of the first character of a two-character operator on its own.
SingleKind ==
    [c \in {"=", "!", "<", ">", "&", "|"} |->
        CASE c = "=" -> "EQUAL"
          [] c = "!" -> "BANG"
          [] c = "<" -> "LESS"
          [] c = ">" -> "GREATER"
          [] c = "&" -> "AMPERSAND"
          [] c = "|" -> "PIPE"]

\* The character at 0-based offset off of the source, NUL past its end.
CharAt(off) == IF off < Len(source) THEN source[off + 1] ELSE NUL

\* The token the scanning step has just pushed is of kind type, has the
\* lexeme text and a span as long as the lexeme that ends at the column.
Pushed(type, text) ==
    /\ Len(tokens') = Len(tokens) + 1
    /\ SubSeq(tokens', 1, Len(tokens)) = tokens
    /\ tokens'[Len(tokens')].type = type
    /\ tokens'[Len(tokens')].lexeme = text
    /\ tokens'[Len(tokens')].loc.end_column = current_column'
    /\ tokens'[Len(tokens')].loc.end_column
         - tokens'[Len(tokens')].loc.start_column = Len(text)

\* C12: a scanning step at the first character of a two-character operator
\* pushes one compound token with the two-character lexeme and a span of
\* length 2 when the second character matches, and otherwise the
\* single-character token, leaving the second character unconsumed; and a
\* source that is exactly one of the pairs is returned as that one token.
C12_TwoCharOperators ==
    [][/\ (pc = "lex" /\ CharAt(current_offset) \in DOMAIN SingleKind) =>
            LET c == CharAt(current_offset)
                d == CharAt(current_offset + 1)
            IN  IF <<c, d>> \in DOMAIN CompoundKind
                THEN /\ Pushed(CompoundKind[<<c, d>>], <<c, d>>)
                     /\ current_offset' = current_offset + 2
                ELSE /\ Pushed(SingleKind[c], <<c>>)
                     /\ current_offset' = current_offset + 1
       /\ (pc = "lex" /\ pc' = "parse" /\ source \in DOMAIN CompoundKind) =>
            tokens' = <<[type |-> CompoundKind[source], lexeme |-> source,
                         loc |-> [line |-> 1, start_column |-> 0,
                                  end_column |-> 2]]>>
      ]_vars

\* C12 witness: the source || has been returned as one OR token.
C12_Witness ==
    /\ source = <<"|", "|">>
    /\ pc = "parse"
    /\ Len(tokens) = 1
    /\ tokens[1].type = "OR"

RECURSIVE DigitRunEnd(_)
\* The 0-based offset just past the maximal run of digits that covers off.
DigitRunEnd(off) ==
    IF CharAt(off) \in Digits THEN DigitRunEnd(off + 1) ELSE off

\* C13: a scanning step at a digit pushes one NUMBER token whose lexeme is
\* the maximal run of digits starting there and whose span is as long as
\* the lexeme; and a non-empty source of digits only is returned as exactly
\* one NUMBER token with lexeme = source and end_column - start_column =
\* len(source).
C13_IntegerLiteral ==
    [][/\ (pc = "lex" /\ CharAt(current_offset) \in Digits) =>
            /\ Pushed("NUMBER",
                      SubSeq(source, current_offset + 1,
                             DigitRunEnd(current_offset)))
            /\ current_offset' = DigitRunEnd(current_offset)
       /\ (/\ pc = "lex" /\ pc' = "parse"
           /\ source # <<>>
           /\ \A i \in 1..Len(source) : source[i] \in Digits) =>
            /\ Len(tokens') = 1
            /\ tokens'[1].type = "NUMBER"
            /\ tokens'[1].lexeme = source
            /\ tokens'[1].loc.end_column - tokens'[1].loc.start_column
                 = Len(source)
      ]_vars

\* C13 witness: a literal with a zero in it has been returned as one token.
C13_Witness ==
    /\ source = <<"4", "0", "9">>
    /\ pc = "parse"
    /\ Len(tokens) = 1
    /\ tokens[1].lexeme = source

\* The source is made of spaces, tabs and newlines only (or is empty).
OnlyWhitespace ==
    \A i \in 1..Len(source) : source[i] \in {" ", "\t", "\n"}

\* C14: on a source of whitespace only, the empty source included, every
\* step of tokenize leaves the token vector empty and tokenize returns it
\* empty: no token at all, no end-of-file token, and no error exit.
C14_WhitespaceOnly ==
    [][(pc = "lex" /\ OnlyWhitespace) =>
            /\ tokens = <<>>
            /\ tokens' = <<>>
            /\ pc' \in {"lex", "parse"}
            /\ lexError' = NoLexError
      ]_vars

\* C14 witness: a source of a space, a tab and a newline has been returned
\* as no token.
C14_Witness ==
    /\ source = <<" ", "\t", "\n">>
    /\ pc = "parse"
    /\ tokens = <<>>

\* C15: whenever an iteration of Parser::parse meets a parse error, parse
\* returns (no further statement is attempted) with exactly the top-level
\* nodes completed before the error, in order; for an invalid token at the
\* start of an expression and for a missing required token alike.
C15_ErrorKeepsPartial ==
    [][(pc = "parse" /\ parseError' # NoParseError) =>
            /\ pc' = "done"
            /\ statements' = statements
      ]_vars

RECURSIVE TakeLine(_)
\* The text from 1-based index i of the source up to the end of its line.
TakeLine(i) ==
    IF i > Len(source) \/ source[i] = "\n"
    THEN <<>>
    ELSE <<source[i]>> \o TakeLine(i + 1)

RECURSIVE AfterNewline(_)
\* The 1-based index just past the first newline at or after index i.
AfterNewline(i) ==
    IF i > Len(source) \/ source[i] = "\n" THEN i + 1 ELSE AfterNewline(i + 1)

RECURSIVE LineStart(_)
\* The 1-based index at which line n of the source starts.
LineStart(n) == IF n = 1 THEN 1 ELSE AfterNewline(LineStart(n - 1))

\* The full text of line n of the source, without its newline.
LineText(n) == TakeLine(LineStart(n))

\* C16: the message rendered for an unknown character at span loc shows as
\* its source-line text the full text of line loc.line of the source.
C16_DiagnosticLine ==
    lexError.message = "Unknown character" =>
        lexError.report.text = LineText(lexError.loc.line)

RECURSIVE BinaryOpNodes(_)
\* The BinaryOp nodes of a tree.
BinaryOpNodes(node) ==
    CASE node.type = "binaryOp" ->
            {node} \cup BinaryOpNodes(node.left) \cup BinaryOpNodes(node.right)
      [] node.type = "varDeclaration" -> BinaryOpNodes(node.value)
      [] OTHER -> {}

\* C17: every BinaryOp node the parser has built carries as its operator
\* the lexeme of the operator token consumed in infix position (the token
\* whose span the node took), for every operator of the precedence table.
C17_OperatorText ==
    \A k \in 1..Len(statements) :
        \A node \in BinaryOpNodes(statements[k]) :
            \A i \in 1..Len(tokens) :
                (tokens[i].loc = node.loc /\ tokens[i].type \in BinaryOperators)
                    => node.op = tokens[i].lexeme

\* The characters that start a token or are skipped as layout.
LexicalAlphabet ==
    {" ", "\t", "\n", "\f", "\r", "_"} \cup Digits \cup Letters
        \cup {"=", "!", "<", ">", "&", "|", "+", "-", "*", "/", "%", "^",
              "~", "?", ",", ";", ":", ".", "(", ")", "{", "}", "[", "]"}

\* The number of double quotes among the first n characters of the source:
\* odd inside a string literal, even outside.
QuotesBefore(n) == Cardinality({j \in 1..n : source[j] = "\""})

\* The source closes every string literal it opens and has no unknown
\* character outside a string literal.
WellFormedSource ==
    /\ QuotesBefore(Len(source)) % 2 = 0
    /\ \A i \in 1..Len(source) :
          \/ source[i] \in LexicalAlphabet \cup {"\""}
          \/ QuotesBefore(i) % 2 = 1

\* C18: the offset never decreases; every iteration of the scanning loop
\* consumes at least one character and none past the end of the buffer;
\* tokenize returns only with the offset at the end of the buffer; and on
\* a source with no unknown character and no unterminated string tokenize
\* does not exit and does return.
C18_LexerTotal ==
    /\ [][/\ current_offset' >= current_offset
          /\ pc = "lex" =>
                /\ current_offset' <= Len(source)
                /\ pc' = "parse" => current_offset = Len(source)
                /\ pc' # "parse" => current_offset' > current_offset
                /\ WellFormedSource => pc' \in {"lex", "parse"}
         ]_vars
    /\ (pc = "lex" /\ WellFormedSource)
          ~> (pc = "parse" /\ current_offset = Len(source))

\* C18 witness: tokenize has returned at the end of a well-formed source of
\* several tokens, a string literal with a newline among them.
C18_Witness ==
    /\ pc = "parse"
    /\ pos = 0
    /\ Len(source) = 14
    /\ source[10] = "\""
    /\ WellFormedSource
    /\ current_offset = Len(source)
    /\ Len(tokens) = 10

\* The token kind the precedence table's right-associative operators have,
\* by source spelling.
SpelledKind ==
    [text \in AssignmentSources \cup {<<"=">>} |->
        CASE text = <<"*", "*">> -> "POWERING"
          [] text = <<"=">> -> "ASSIGN"
          [] text = <<"+", "=">> -> "PLUS_ASSIGN"
          [] text = <<"-", "=">> -> "MINUS_ASSIGN"
          [] text = <<"*", "=">> -> "STAR_ASSIGN"
          [] text = <<"/", "=">> -> "SLASH_ASSIGN"
          [] text = <<"%", "=">> -> "PERCENT_ASSIGN"]

PowerTree ==
    BinaryOp(<<"*", "*">>, Identifier(<<"a">>),
             BinaryOp(<<"*", "*">>, Identifier(<<"b">>), Identifier(<<"c">>)))

\* C19: lexing the text a ** b ** c and parsing the tokens yields exactly
\* one top-level node, **(a, **(b, c)); and the lexer returns the spelling
\* of the power operator and of each assignment operator as one token of
\* the kind the parser's precedence table knows.
C19_PowerEndToEnd ==
    /\ (source = PowerSource /\ Stopped) => ParseYields(<<PowerTree>>)
    /\ (source \in DOMAIN SpelledKind /\ pc # "lex") =>
            /\ Len(tokens) = 1
            /\ tokens[1].type = SpelledKind[source]

\* The eleven keywords and the kind of each.
KeywordKind ==
    [word \in KeywordSources |->
        CASE word = <<"i", "f">> -> "IF"
          [] word = <<"e", "l", "s", "e">> -> "ELSE"
          [] word = <<"w", "h", "i", "l", "e">> -> "WHILE"
          [] word = <<"f", "o", "r">> -> "FOR"
          [] word = <<"f", "o", "r", "e", "a", "c", "h">> -> "FOREACH"
          [] word = <<"d", "o">> -> "DO"
          [] word = <<"b", "r", "e", "a", "k">> -> "BREAK"
          [] word = <<"c", "o", "n", "t", "i", "n", "u", "e">> -> "CONTINUE"
          [] word = <<"r", "e", "t", "u", "r", "n">> -> "RETURN"
          [] word = <<"t", "r", "u", "e">> -> "TRUE"
          [] word = <<"f", "a", "l", "s", "e">> -> "FALSE"]

RECURSIVE WordRunEnd(_)
\* The 0-based offset just past the maximal run of letters, digits and _
\* that covers off.
WordRunEnd(off) ==
    IF CharAt(off) \in Letters \cup Digits \cup {"_"}
    THEN WordRunEnd(off + 1)
    ELSE off

\* The kind of a word: its keyword kind if it is exactly a keyword.
WordKind(word) ==
    IF word \in DOMAIN KeywordKind THEN KeywordKind[word] ELSE "IDENTIFIER"

\* C20: a scanning step at a letter or _ pushes exactly one token whose
\* lexeme is the maximal run of letters, digits and _ starting there; its
\* kind is the keyword kind when the whole lexeme equals a keyword, in the
\* same case, and IDENTIFIER otherwise.
C20_KeywordOrIdentifier ==
    [][(pc = "lex" /\ CharAt(current_offset) \in Letters \cup {"_"}) =>
            LET word == SubSeq(source, current_offset + 1,
                               WordRunEnd(current_offset))
            IN  /\ Pushed(WordKind(word), word)
                /\ current_offset' = WordRunEnd(current_offset)
      ]_vars

\* C20 witness: keywords and identifiers that contain keywords have been
\* returned from one source text, while(do_1 do)2for.
C20_Witness ==
    /\ pc = "parse"
    /\ pos = 0
    /\ Len(source) = 18
    /\ Len(tokens) = 7
    /\ tokens[1].type = "WHILE"
    /\ tokens[3] = [type |-> "IDENTIFIER", lexeme |-> <<"d", "o", "_", "1">>,
                    loc |-> [line |-> 1, start_column |-> 6,
                             end_column |-> 10]]
    /\ tokens[4].type = "DO"
    /\ tokens[7].type = "FOR"

\* The tag name of each node variant.
TagName ==
    [kind \in {"Number", "String", "Identifier", "BinaryOp", "VarDeclaration"} |->
        CASE kind = "Number" -> "number"
          [] kind = "String" -> "string"
          [] kind = "Identifier" -> "identifier"
          [] kind = "BinaryOp" -> "binaryOp"
          [] kind = "VarDeclaration" -> "varDeclaration"]

RECURSIVE Tagged(_, _)
\* The mapping view of the node, and of every node below it, has the
\* variant's tag name as kind and the node's span as loc.
Tagged(node, view) ==
    \/ node = Null
    \/ /\ view.kind = [string |-> TagName[node.kind]]
       /\ view.loc = [line |-> node.loc.line,
                      start_column |-> node.loc.start_column,
                      end_column |-> node.loc.end_column]
       /\ node.kind = "BinaryOp" =>
             Tagged(node.left, view.left) /\ Tagged(node.right, view.right)
       /\ node.kind = "VarDeclaration" => Tagged(node.value, view.value)

\* C21: for every node variant, toJson returns a mapping whose kind field
\* is the variant's tag name string and whose loc field holds line,
\* start_column and end_column of the node's span.
C21_StructuredViewTag ==
    pc = "dumped" =>
        \A k \in 1..Len(statements) : Tagged(statements[k], ast_json[k])

\* C22: for every token sequence, malformed ones included, the parser never
\* reads tokens[i] with i at or past the sequence length or below 0, and
\* never ends in an out-of-range access.
C22_CursorInBounds == ~oobRead /\ pc # "fault"

\* C23: every BinaryOp node in the statements Parser::parse has collected
\* has a non-null left child and a non-null right child, for every token
\* sequence read within its bounds, an END_OF_FILE token directly after an
\* operator included.
C23_CompleteBinaryNodes ==
    ~oobRead =>
        \A k \in 1..Len(statements) :
            \A node \in BinaryOpNodes(statements[k]) :
                node.left # Null /\ node.right # Null

\* The kinds that start an expression of one token.
OperandKinds == {"NUMBER", "STRING", "IDENTIFIER"}

\* C24: no step reports led's default branch; and when the top-level loop
\* starts at an operand that is followed by a token of precedence 0 (a kind
\* outside the precedence table), the iteration reports nothing, yields the
\* operand as a statement and leaves the cursor on the following token,
\* which starts the next top-level expression.
C24_InfixDispatch ==
    [][/\ parseError'.kind # "led"
       /\ (/\ pc = "parse"
           /\ pos + 2 <= Len(tokens)
           /\ tokens[pos + 1].type \in OperandKinds
           /\ tokens[pos + 2].type \notin DOMAIN TablePrecedence) =>
                /\ pos' = pos + 1
                /\ pc' = "parse"
                /\ parseError' = NoParseError
                /\ Len(statements') = Len(statements) + 1
                /\ SubSeq(statements', 1, Len(statements)) = statements
                /\ Shape(statements'[Len(statements')])
                     = Operand(<<tokens[pos + 1].type, tokens[pos + 1].lexeme>>)
      ]_vars

\* C24 witness: a number followed by `)` has been parsed as a statement and
\* the cursor is on the `)`.
C24_Witness ==
    /\ pc = "parse"
    /\ Len(tokens) = 2
    /\ tokens[1].type = "NUMBER"
    /\ tokens[2].type = "RIGHT_PAREN"
    /\ pos = 1
    /\ Len(statements) = 1

\* The cursor is at the end of the sequence or on an END_OF_FILE token.
AtEndOrEof ==
    IF pos >= Len(tokens) THEN TRUE ELSE tokens[pos + 1].type = "END_OF_FILE"

\* The binding powers expression is called with.
BindingPowers == {0, 1, 2, 3, 7, 8, 9, 10, 20, 29, 30}

\* C25: Parser::parse terminates on every token sequence.  While parse
\* runs a step is always possible, and every call of expression returns
\* behind the token it started at; the cursor never decreases; every
\* iteration of the top-level loop either ends parse or moves the cursor
\* forward, so there are at most as many iterations as tokens; and at the
\* first END_OF_FILE or at the end of the sequence the loop stops and
\* parse returns without consuming a token or adding a statement.
C25_ParserTerminates ==
    /\ [](pc = "parse" =>
            /\ AtEndOrEof \/ \A g \in GarbageTokens :
                                Expression(g, pos, 0).st \in {"ok", "throw", "exit"}
            /\ pos = 0 =>
                  \A p \in 0..(Len(tokens) - 1) : \A rbp \in BindingPowers :
                      \A g \in GarbageTokens : Expression(g, p, rbp).pos > p)
    /\ [][/\ pos' >= pos
          /\ pc = "parse" =>
                /\ tokens' = tokens
                /\ pc' \in {"parse", "done", "parse_exit", "fault"}
                /\ pc' = "parse" => (pos' > pos /\ pos < Len(tokens))
                /\ pc' \in {"done", "parse_exit"} =>
                      (AtEndOrEof \/ pos' > pos)
                /\ AtEndOrEof =>
                      /\ pc' = "done"
                      /\ pos' = pos
                      /\ statements' = statements
         ]_vars

\* C25 witness: parse has returned at an END_OF_FILE token in the middle of
\* the sequence, the number after it unread.
C25_Witness ==
    /\ pc = "done"
    /\ Len(tokens) = 3
    /\ tokens[1].type = "NUMBER"
    /\ tokens[2].type = "END_OF_FILE"
    /\ tokens[3].type = "NUMBER"
    /\ pos = 1
    /\ Len(statements) = 1
    /\ parseError = NoParseError

====
